---- MODULE Spec2Model ----
(***************************************************************************)
(* Model of SNR_VIS.ipynb: a Jupyter notebook that computes the            *)
(* signal-to-noise ratio of one pixel of an electro-optical sensor.        *)
(*                                                                         *)
(* The notebook's state is the kernel's global namespace.  Each code cell  *)
(* is one operation on it: a sequence of assignments executed in order,    *)
(* which stops at the first statement that raises.                         *)
(*                                                                         *)
(* Python's float is modelled as a decimal floating-point number with Prec *)
(* significant digits, round-half-even, a bounded exponent range, signed   *)
(* infinities and NaN.  Every arithmetic operation rounds its exact result *)
(* to Prec digits as IEEE-754 arithmetic rounds it to 53 bits.             *)
(***************************************************************************)
EXTENDS Integers, Sequences, FiniteSets, TLC

(***************************************************************************)
(* Floating-point numbers                                                  *)
(***************************************************************************)

\* Significant decimal digits of the modelled float (4 .. 6).
Prec == 5

\* Decimal exponent of the largest finite double, about 1.8e308.
MaxExp10 == 308

\* Decimal exponent of the smallest positive double, about 4.9e-324.
MinExp10 == -324

P10(n) == 10 ^ n

Base == P10(Prec)

Lo == P10(Prec - 1)

\* val.k is "fin", "inf", "nan", "undef" (an unbound name) or the name of the
\* exception that evaluating the expression raised.
Val(k, s, m, e) == [k |-> k, s |-> s, m |-> m, e |-> e]

Zero == Val("fin", 1, 0, 0)

Inf(s) == Val("inf", s, 0, 0)

NaN == Val("nan", 1, 0, 0)

Undef == Val("undef", 1, 0, 0)

Raise(exc) == Val(exc, 1, 0, 0)

IsFin(x) == x.k = "fin"

IsNum(x) == x.k \in {"fin", "inf", "nan"}

IsZero(x) == x.k = "fin" /\ x.m = 0

\* The exception an operand carries into an operation, "" when none: reading
\* an unbound global raises NameError, a raised exception propagates.
Exc1(x) == IF x.k = "undef" THEN "NameError" ELSE IF IsNum(x) THEN "" ELSE x.k

Exc2(x, y) == IF Exc1(x) # "" THEN Exc1(x) ELSE Exc1(y)

RECURSIVE NumDigits(_)
NumDigits(n) == IF n < 10 THEN 1 ELSE 1 + NumDigits(n \div 10)

\* n / d rounded to the nearest integer, ties to even.
RoundDiv(n, d) ==
    LET q == n \div d
        r == n % d
    IN  IF 2 * r > d \/ (2 * r = d /\ q % 2 = 1) THEN q + 1 ELSE q

\* A normalised mantissa and exponent, checked against the exponent range:
\* too large is an infinity, too small is flushed to zero.
Pack(s, m, e) ==
    IF e + Prec - 1 > MaxExp10 THEN Inf(s)
    ELSE IF e + Prec - 1 < MinExp10 THEN Zero
    ELSE Val("fin", s, m, e)

\* The float nearest to s * n * 10^e, for an integer 0 <= n < 2^31.
Norm(s, n, e) ==
    IF n = 0 THEN Zero
    ELSE LET d == NumDigits(n)
         IN  IF d <= Prec
             THEN Pack(s, n * P10(Prec - d), e - (Prec - d))
             ELSE LET k == d - Prec
                      m == RoundDiv(n, P10(k))
                  IN  IF m = Base THEN Pack(s, Lo, e + k + 1)
                      ELSE Pack(s, m, e + k)

\* A decimal literal n * 10^e.
Lit(n, e) == IF n < 0 THEN Norm(-1, -n, e) ELSE Norm(1, n, e)

Neg(x) == IF (IsFin(x) /\ x.m # 0) \/ x.k = "inf" THEN [x EXCEPT !.s = -x.s] ELSE x

\* |x| >= |y| for finite x and y.
MagGe(x, y) ==
    IF y.m = 0 THEN TRUE
    ELSE IF x.m = 0 THEN FALSE
    ELSE x.e > y.e \/ (x.e = y.e /\ x.m >= y.m)

\* x < y for numbers that are not NaN.
Lt(x, y) ==
    IF x.k = "inf" THEN x.s = -1 /\ ~(y.k = "inf" /\ y.s = -1)
    ELSE IF y.k = "inf" THEN y.s = 1
    ELSE IF x.m = 0 THEN y.m # 0 /\ y.s = 1
    ELSE IF y.m = 0 THEN x.s = -1
    ELSE IF x.s # y.s THEN x.s = -1
    ELSE IF x.s = 1 THEN ~MagGe(x, y) ELSE ~MagGe(y, x)

\* Python's comparisons: every comparison with NaN is false.
Less(x, y) == x.k # "nan" /\ y.k # "nan" /\ Lt(x, y)

LessEq(x, y) == x.k # "nan" /\ y.k # "nan" /\ ~Lt(y, x)

\* The exact sum of two finite numbers, rounded once.  The smaller operand
\* is aligned with two guard digits and a sticky digit.
AddFin(x, y) ==
    IF x.m = 0 THEN y
    ELSE IF y.m = 0 THEN x
    ELSE LET a == IF MagGe(x, y) THEN x ELSE y
             b == IF MagGe(x, y) THEN y ELSE x
             d == a.e - b.e
             X == a.m * 100
             far == d >= Prec + 3
             Yf == IF far THEN 0 ELSE (b.m * 100) \div P10(d)
             st == IF far THEN 1 ELSE IF (b.m * 100) % P10(d) # 0 THEN 1 ELSE 0
             n == IF a.s = b.s THEN (X + Yf) * 10 + st ELSE (X - Yf) * 10 - st
         IN  Norm(a.s, n, a.e - 3)

Add(x, y) ==
    IF Exc2(x, y) # "" THEN Raise(Exc2(x, y))
    ELSE IF x.k = "nan" \/ y.k = "nan" THEN NaN
    ELSE IF x.k = "inf" THEN (IF y.k = "inf" /\ y.s # x.s THEN NaN ELSE x)
    ELSE IF y.k = "inf" THEN y
    ELSE AddFin(x, y)

Sub(x, y) == Add(x, Neg(y))

\* The product of two mantissas as hi * Base + lo, in 32-bit steps.
MulParts(a, b) ==
    LET a1 == a \div 1000
        a0 == a % 1000
        X == a1 * b
        Y == a0 * b
        Q == P10(Prec - 3)
        t == (X % Q) * 1000 + Y
    IN  [hi |-> (X \div Q) + (t \div Base), lo |-> t % Base]

MulFin(x, y) ==
    IF x.m = 0 \/ y.m = 0 THEN Zero
    ELSE LET p == MulParts(x.m, y.m)
             G == P10(Prec - 2)
             n == p.hi * 1000 + (p.lo \div G) * 10 + (IF p.lo % G # 0 THEN 1 ELSE 0)
         IN  Norm(x.s * y.s, n, x.e + y.e + Prec - 3)

\* Python float multiplication: an overflow gives an infinity, not an error.
Mul(x, y) ==
    IF Exc2(x, y) # "" THEN Raise(Exc2(x, y))
    ELSE IF x.k = "nan" \/ y.k = "nan" THEN NaN
    ELSE IF x.k = "inf" \/ y.k = "inf"
         THEN (IF IsZero(x) \/ IsZero(y) THEN NaN ELSE Inf(x.s * y.s))
    ELSE MulFin(x, y)

\* n more digits of the long division of r by d: <<quotient, remainder>>.
RECURSIVE DivDigits(_, _, _, _)
DivDigits(q, r, d, n) ==
    IF n = 0 THEN <<q, r>>
    ELSE DivDigits(q * 10 + (r * 10) \div d, (r * 10) % d, d, n - 1)

DivFin(x, y) ==
    LET qr == DivDigits(x.m \div y.m, x.m % y.m, y.m, Prec + 1)
        n == qr[1] * 10 + (IF qr[2] # 0 THEN 1 ELSE 0)
    IN  Norm(x.s * y.s, n, x.e - y.e - Prec - 2)

\* Python float true division: a zero divisor raises ZeroDivisionError.
Div(x, y) ==
    IF Exc2(x, y) # "" THEN Raise(Exc2(x, y))
    ELSE IF IsZero(y) THEN Raise("ZeroDivisionError")
    ELSE IF x.k = "nan" \/ y.k = "nan" THEN NaN
    ELSE IF x.k = "inf" THEN (IF y.k = "inf" THEN NaN ELSE Inf(x.s * y.s))
    ELSE IF y.k = "inf" \/ x.m = 0 THEN Zero
    ELSE DivFin(x, y)

\* numpy float64 division: a zero divisor gives an infinity or NaN.
NpDiv(x, y) ==
    IF Exc2(x, y) # "" THEN Raise(Exc2(x, y))
    ELSE IF ~IsZero(y) THEN Div(x, y)
    ELSE IF x.k = "nan" \/ IsZero(x) THEN NaN
    ELSE Inf(x.s)

\* x ** 2 on a Python float: an overflow raises OverflowError.
Pow2(x) ==
    LET r == Mul(x, x)
    IN  IF IsFin(x) /\ r.k = "inf" THEN Raise("OverflowError") ELSE r

\* x ** 2 on a numpy float64: an overflow gives an infinity.
NpPow2(x) == Mul(x, x)

\* Digit-by-digit square root: the next root digit for remainder c.
RECURSIVE SqrtDigit(_, _, _)
SqrtDigit(root, c, x) ==
    IF (20 * root + x) * x <= c THEN x ELSE SqrtDigit(root, c, x - 1)

\* Feeds the digit pairs of n, most significant first, then pairs of zeros
\* until the root has Prec + 1 digits: <<root, remainder, zero pairs used>>.
RECURSIVE SqrtLoop(_, _, _, _, _)
SqrtLoop(root, rem, n, pairs, z) ==
    IF pairs = 0 /\ root >= Base THEN <<root, rem, z>>
    ELSE LET pp == IF pairs = 0 THEN 0 ELSE (n \div P10(2 * (pairs - 1))) % 100
             c == rem * 100 + pp
             x == SqrtDigit(root, c, 9)
         IN  SqrtLoop(root * 10 + x, c - (20 * root + x) * x, n,
                      IF pairs = 0 THEN 0 ELSE pairs - 1,
                      IF pairs = 0 THEN z + 1 ELSE z)

SqrtFin(x) ==
    LET odd == x.e % 2 = 1
        n == IF odd THEN x.m * 10 ELSE x.m
        e == IF odd THEN x.e - 1 ELSE x.e
        r == SqrtLoop(0, 0, n, (Prec + 2) \div 2, 0)
    IN  Norm(1, r[1] * 10 + (IF r[2] # 0 THEN 1 ELSE 0), (e \div 2) - r[3] - 1)

\* np.sqrt: the square root of a negative number is NaN (with a warning).
Sqrt(x) ==
    IF Exc1(x) # "" THEN Raise(Exc1(x))
    ELSE IF x.k = "nan" THEN NaN
    ELSE IF x.k = "inf" THEN (IF x.s = 1 THEN x ELSE NaN)
    ELSE IF x.m = 0 THEN Zero
    ELSE IF x.s = -1 THEN NaN
    ELSE SqrtFin(x)

\* Bits of the binary expansion of an exponent's fraction that Exp10 uses.
ExpBits == 16

\* 10 ^ (1/2), 10 ^ (1/4), ..., 10 ^ (1/2^ExpBits).
RECURSIVE RootsFrom(_, _)
RootsFrom(r, n) == IF n = 0 THEN <<>> ELSE <<Sqrt(r)>> \o RootsFrom(Sqrt(r), n - 1)

Roots10 == RootsFrom(Lit(10, 0), ExpBits)

\* acc times 10 ^ (fn / fd), 0 <= fn < fd, by the binary expansion of fn / fd.
RECURSIVE ExpFrac(_, _, _, _)
ExpFrac(acc, fn, fd, i) ==
    IF i > ExpBits \/ fn = 0 THEN acc
    ELSE IF 2 * fn >= fd THEN ExpFrac(Mul(acc, Roots10[i]), 2 * fn - fd, fd, i + 1)
    ELSE ExpFrac(acc, 2 * fn, fd, i + 1)

\* 10 ** x with a float x: an overflow raises OverflowError.
Exp10(x) ==
    IF Exc1(x) # "" THEN Raise(Exc1(x))
    ELSE IF x.k = "nan" THEN NaN
    ELSE IF x.k = "inf" THEN (IF x.s = 1 THEN x ELSE Zero)
    ELSE IF x.m = 0 THEN Lit(1, 0)
    ELSE IF x.e + Prec > 4 THEN (IF x.s = 1 THEN Raise("OverflowError") ELSE Zero)
    ELSE LET k == IF x.e >= 0 THEN 0 ELSE IF -x.e > 9 THEN 9 ELSE -x.e
             mm == IF x.e >= 0 THEN x.m * P10(x.e)
                   ELSE IF -x.e - 9 >= Prec THEN 0
                   ELSE IF -x.e > 9 THEN x.m \div P10(-x.e - 9) ELSE x.m
             fd == P10(k)
             sn == x.s * mm
             ip == IF sn >= 0 THEN sn \div fd ELSE -((-sn + fd - 1) \div fd)
             fn == sn - ip * fd
             whole == Pack(1, Lo, ip - (Prec - 1))
         IN  IF whole.k = "inf" THEN Raise("OverflowError")
             ELSE ExpFrac(whole, fn, fd, 1)

Pi == Lit(314159265, -8)

HalfPi == Div(Pi, Lit(2, 0))

\* arctan for |x| <= 0.1: x - x^3/3 + x^5/5.
ArctanSeries(x) ==
    LET x2 == Mul(x, x)
        x3 == Mul(x2, x)
        x5 == Mul(x3, x2)
    IN  Add(Sub(x, Div(x3, Lit(3, 0))), Div(x5, Lit(5, 0)))

\* arctan(x) = 2 arctan(x / (1 + sqrt(1 + x^2))) brings x into the series' range.
RECURSIVE ArctanFin(_)
ArctanFin(x) ==
    IF x.m = 0 THEN Zero
    ELSE IF x.e + Prec - 1 > Prec THEN (IF x.s = 1 THEN HalfPi ELSE Neg(HalfPi))
    ELSE IF x.e + Prec - 1 < -1 THEN ArctanSeries(x)
    ELSE Mul(Lit(2, 0),
             ArctanFin(Div(x, Add(Lit(1, 0), Sqrt(Add(Lit(1, 0), Mul(x, x)))))))

\* np.arctan.
Arctan(x) ==
    IF Exc1(x) # "" THEN Raise(Exc1(x))
    ELSE IF x.k = "nan" THEN NaN
    ELSE IF x.k = "inf" THEN (IF x.s = 1 THEN HalfPi ELSE Neg(HalfPi))
    ELSE ArctanFin(x)

\* np.rad2deg: x * (180 / pi).
Rad2Deg(x) == Mul(x, Div(Lit(180, 0), Pi))

(***************************************************************************)
(* The notebook                                                            *)
(***************************************************************************)

\* The 18 literals of the parameter cell, in the order they are assigned.
ParamNames ==
    <<"R", "lambda_c", "D_ap", "D_obs", "n_x", "n_y", "D", "f", "BW", "L_typ",
      "eta", "t", "n_evmax", "DR", "L_abs", "L_scat", "L_opt", "L_crop">>

\* The names each stage assigns, in the order of its statements.
HelperNames == <<"np", "sp", "db2pow", "db2volt", "pow2db">>

GeometryNames == <<"R_e", "h", "c", "A_ap", "A_obs", "A_det", "iFOV_px", "pix_smear">>

SignalNames == <<"P", "phi_det", "phi", "n_ev", "saturation">>

\* Mutant: the noise cell also re-assigns the signal stage's photon flux.
NoiseNames_WithSignal == <<"phi_det", "n_sh", "n_d", "n_q", "n_fpn", "n_r">>

NoiseNames == <<"n_sh", "n_d", "n_q", "n_fpn", "n_r">>

SnrNames == <<"snr">>

Range(q) == {q[i] : i \in DOMAIN q}

AllNames ==
    Range(ParamNames) \cup Range(HelperNames) \cup Range(GeometryNames)
        \cup Range(SignalNames) \cup Range(NoiseNames) \cup Range(SnrNames)

\* A bound module or function object.
Obj == Val("obj", 1, 0, 0)

\* The kernel's namespace before any cell has run.
EmptyNs == [n \in AllNames |-> Undef]

\* The literals of the parameter cell as the repository has them.
Reference ==
    [R |-> Lit(400, 0), lambda_c |-> Lit(625, 0), D_ap |-> Lit(114, -1),
     D_obs |-> Zero, n_x |-> Lit(2200, 0), n_y |-> Lit(3208, 0), D |-> Lit(6, 0),
     f |-> Lit(16, 0), BW |-> Lit(300, 0), L_typ |-> Lit(2045, -2),
     eta |-> Lit(35, -2), t |-> Lit(13, -5), n_evmax |-> Lit(12000, 0),
     DR |-> Lit(55, 0), L_abs |-> Lit(11, -2), L_scat |-> Lit(58, -3),
     L_opt |-> Lit(2, -1), L_crop |-> Lit(6, -1)]

\* Mutant: the literals are assigned only in a fresh namespace, as if they
\* lived in a cell of their own that is not re-executed.
ParamAssign_Once(ns, raw) ==
    IF ns.R = Undef
    THEN [n \in AllNames |-> IF n \in DOMAIN raw THEN raw[n] ELSE ns[n]]
    ELSE ns

\* The parameter cell's assignments of its literals.
ParamAssign(ns, raw) == [n \in AllNames |-> IF n \in DOMAIN raw THEN raw[n] ELSE ns[n]]

\* The parameter cell's in-place unit conversions.
UnitConversion(ns) ==
    [ns EXCEPT !.R = Mul(@, Lit(1, 3)), !.lambda_c = Mul(@, Lit(1, -9)),
               !.D_ap = Mul(@, Lit(1, -3)), !.D_obs = Mul(@, Lit(1, -3)),
               !.D = Mul(@, Lit(1, -6)), !.f = Mul(@, Lit(1, -3)),
               !.BW = Mul(@, Lit(1, -9)), !.L_typ = Mul(@, Lit(1, 6))]

ParamCell(ns, raw) == UnitConversion(ParamAssign(ns, raw))

\* An attribute or call of a module or function the helper cell binds.
Bound(obj, v) == IF obj = Undef THEN Raise("NameError") ELSE v

SpConstantsH == Lit(662607015, -42)

SpConstantsC == Lit(299792458, 0)

db2pow(db) == Exp10(Div(db, Lit(10, 0)))

\* Mutant: the power conversion where the voltage conversion belongs.
db2volt_AsPower(db) == Exp10(Div(db, Lit(10, 0)))

db2volt(db) == Exp10(Div(db, Lit(20, 0)))

R_e(ns) == Mul(Lit(6378137, -3), Lit(1, 3))

A_ap(ns) == Div(Mul(Bound(ns.np, Pi), Pow2(ns.D_ap)), Lit(4, 0))

A_obs(ns) == Div(Mul(Bound(ns.np, Pi), Pow2(ns.D_obs)), Lit(4, 0))

A_det(ns) == Mul(Mul(Pow2(ns.D), ns.n_x), ns.n_y)

iFOV_px(ns) ==
    Bound(ns.np, Rad2Deg(Mul(Lit(2, 0), Arctan(Div(Mul(Lit(5, -1), ns.D), ns.f)))))

\* The argument of the smear formula's square root.
SmearArg(ns) == Div(Add(Lit(398600000, 0), Lit(5, -1)), Add(ns.R, ns.R_e))

pix_smear(ns) == Mul(Mul(ns.t, Bound(ns.np, Sqrt(SmearArg(ns)))), Lit(1000, 0))

\* Mutant: the collecting area with aperture and obscuration exchanged.
P_Swapped(ns) ==
    Mul(Mul(Mul(Mul(Mul(Mul(Mul(ns.A_det,
                                Div(Sub(ns.A_obs, ns.A_ap), Pow2(ns.f))),
                            ns.BW),
                        ns.L_typ),
                    Sub(Lit(1, 0), ns.L_abs)),
                Sub(Lit(1, 0), ns.L_scat)),
            Sub(Lit(1, 0), ns.L_opt)),
        Sub(Lit(1, 0), ns.L_crop))

P(ns) ==
    Mul(Mul(Mul(Mul(Mul(Mul(Mul(ns.A_det,
                                Div(Sub(ns.A_ap, ns.A_obs), Pow2(ns.f))),
                            ns.BW),
                        ns.L_typ),
                    Sub(Lit(1, 0), ns.L_abs)),
                Sub(Lit(1, 0), ns.L_scat)),
            Sub(Lit(1, 0), ns.L_opt)),
        Sub(Lit(1, 0), ns.L_crop))

phi_det(ns) == Div(Mul(ns.lambda_c, ns.P), Mul(ns.c, ns.h))

\* Mutant: the photon rate divided by one pixel count only.
phi_PerRow(ns) == Div(ns.phi_det, ns.n_x)

phi(ns) == Div(ns.phi_det, Mul(ns.n_x, ns.n_y))

\* Mutant: the electron count divided by the exposure time.
n_ev_Divided(ns) == Div(Mul(ns.phi, ns.eta), ns.t)

\* Mutant: the electron count accumulated over executions of the cell.
n_ev_Accumulated(ns) ==
    IF ns.n_ev = Undef THEN Mul(Mul(ns.phi, ns.eta), ns.t)
    ELSE Add(ns.n_ev, Mul(Mul(ns.phi, ns.eta), ns.t))

n_ev(ns) == Mul(Mul(ns.phi, ns.eta), ns.t)

saturation(ns) == Div(ns.n_ev, ns.n_evmax)

n_sh(ns) == Bound(ns.np, Sqrt(ns.n_ev))

n_d(ns) == Mul(Lit(100, 0), ns.t)

n_q(ns) == Lit(5, 0)

n_fpn(ns) == Mul(Lit(5, -4), ns.n_ev)

n_r(ns) == Div(ns.n_evmax, Bound(ns.db2volt, db2volt(ns.DR)))

\* Mutant: readout noise entering as a plain square.
NoiseSum_PlainSquares(ns) ==
    Add(Add(Add(Add(NpPow2(ns.n_sh), Pow2(ns.n_d)), Pow2(ns.n_q)), Pow2(ns.n_fpn)),
        Pow2(ns.n_r))

\* The sum under the square root of the SNR statement, added left to right.
NoiseSum(ns) ==
    Add(Add(Add(Add(NpPow2(ns.n_sh), Pow2(ns.n_d)), Pow2(ns.n_q)), Pow2(ns.n_fpn)),
        Pow2(Pow2(ns.n_r)))

snr(ns) == NpDiv(ns.n_ev, Bound(ns.np, Sqrt(NoiseSum(ns))))

\* The right-hand side of the statement that assigns name.
Rhs(name, ns) ==
    CASE name \in Range(HelperNames) -> Obj
      [] name = "R_e" -> R_e(ns)
      [] name = "h" -> Bound(ns.sp, SpConstantsH)
      [] name = "c" -> Bound(ns.sp, SpConstantsC)
      [] name = "A_ap" -> A_ap(ns)
      [] name = "A_obs" -> A_obs(ns)
      [] name = "A_det" -> A_det(ns)
      [] name = "iFOV_px" -> iFOV_px(ns)
      [] name = "pix_smear" -> pix_smear(ns)
      [] name = "P" -> P(ns)
      [] name = "phi_det" -> phi_det(ns)
      [] name = "phi" -> phi(ns)
      [] name = "n_ev" -> n_ev(ns)
      [] name = "saturation" -> saturation(ns)
      [] name = "n_sh" -> n_sh(ns)
      [] name = "n_d" -> n_d(ns)
      [] name = "n_q" -> n_q(ns)
      [] name = "n_fpn" -> n_fpn(ns)
      [] name = "n_r" -> n_r(ns)
      [] name = "snr" -> snr(ns)

\* A cell runs its statements in order and stops at the first that raises:
\* the assignments before it have taken effect.
RECURSIVE Exec(_, _, _)
Exec(stmts, i, ns) ==
    IF i > Len(stmts) THEN [ns |-> ns, exc |-> ""]
    ELSE CHOOSE res \in
             { IF IsNum(v) \/ v = Obj
               THEN Exec(stmts, i + 1, [ns EXCEPT ![stmts[i]] = v])
               ELSE [ns |-> ns, exc |-> v.k] : v \in {Rhs(stmts[i], ns)} } : TRUE

RunCell(stmts, ns) == Exec(stmts, 1, ns)

\* A numpy operation warns (RuntimeWarning) when finite operands overflow to
\* an infinity and when operands that are not NaN give NaN.
NpWarns(x, y, r) ==
    \/ IsFin(x) /\ IsFin(y) /\ r.k = "inf"
    \/ IsNum(x) /\ IsNum(y) /\ x.k # "nan" /\ y.k # "nan" /\ r.k = "nan"

RuntimeWarning(b) == IF b THEN {"RuntimeWarning"} ELSE {}

\* Warnings of the geometry cell, res being what running it gave.
GeometryWarnings(res) ==
    LET a == SmearArg(res.ns)
        r == Sqrt(a)
        p == Mul(res.ns.t, r)
    IN  RuntimeWarning(res.exc = ""
            /\ (NpWarns(a, a, r) \/ NpWarns(res.ns.t, r, p)
                \/ NpWarns(p, Lit(1000, 0), res.ns.pix_smear)))

NoiseWarnings(res) ==
    RuntimeWarning(IsNum(res.ns.n_sh) /\ res.ns.np # Undef
                   /\ NpWarns(res.ns.n_ev, res.ns.n_ev, res.ns.n_sh))

SnrWarnings(res) ==
    LET v == res.ns
        a1 == NpPow2(v.n_sh)
        a2 == Add(a1, Pow2(v.n_d))
        a3 == Add(a2, Pow2(v.n_q))
        a4 == Add(a3, Pow2(v.n_fpn))
        a5 == Add(a4, Pow2(Pow2(v.n_r)))
        r == Sqrt(a5)
    IN  RuntimeWarning(res.exc = ""
            /\ (\/ NpWarns(v.n_sh, v.n_sh, a1)
                \/ NpWarns(a1, Pow2(v.n_d), a2)
                \/ NpWarns(a2, Pow2(v.n_q), a3)
                \/ NpWarns(a3, Pow2(v.n_fpn), a4)
                \/ NpWarns(a4, Pow2(Pow2(v.n_r)), a5)
                \/ NpWarns(a5, a5, r)
                \/ NpWarns(v.n_ev, r, v.snr)))

(***************************************************************************)
(* The kernel session                                                      *)
(***************************************************************************)

VARIABLES
    ns,     \* the kernel's global namespace: name -> value
    err,    \* the exception the cell executed last raised, "" when none
    out,    \* cell -> the warnings its last execution issued
    raw,    \* history: the literals the parameter cell assigned last
    stage,  \* history: 1..5 while the cells run in order without raising
    seen    \* history: the parameters and snr of one earlier complete run, and
            \* whether the parameter cell has set other literals since

vars == <<ns, err, out, raw, stage, seen>>

Cells == {"parameters", "helpers", "geometry", "signal", "noise", "snr"}

NoRaw == [n \in Range(ParamNames) |-> Undef]

NoSeen == [raw |-> NoRaw, snr |-> Undef, between |-> FALSE]

Init ==
    /\ ns = EmptyNs
    /\ err = ""
    /\ out = [cl \in Cells |-> {}]
    /\ raw = NoRaw
    /\ stage = 0
    /\ seen = NoSeen

\* Restarting the kernel clears the namespace and every cell's output.
Restart ==
    /\ ns' = EmptyNs
    /\ err' = ""
    /\ out' = [cl \in Cells |-> {}]
    /\ raw' = NoRaw
    /\ stage' = 0
    /\ UNCHANGED seen

\* The parameter cell with its literals set to one of inputs.
ParameterCell(inputs) ==
    \E r \in inputs :
        /\ ns' = ParamCell(ns, r)
        /\ raw' = r
        /\ err' = ""
        /\ out' = [out EXCEPT !["parameters"] = {}]
        /\ stage' = 1
        /\ seen' = IF seen # NoSeen /\ r # seen.raw
                   THEN [seen EXCEPT !.between = TRUE] ELSE seen

HelperCell ==
    /\ ns' = RunCell(HelperNames, ns).ns
    /\ err' = ""
    /\ out' = [out EXCEPT !["helpers"] = {}]
    /\ UNCHANGED <<raw, stage, seen>>

\* The stage after the cell of in-order position k has run and raised exc.
NextStage(k, exc) == IF exc = "" /\ stage = k - 1 THEN k ELSE 0

GeometryCell ==
    \E res \in {RunCell(GeometryNames, ns)} :
        /\ ns' = res.ns
        /\ err' = res.exc
        /\ out' = [out EXCEPT !["geometry"] = GeometryWarnings(res)]
        /\ stage' = NextStage(2, res.exc)
        /\ UNCHANGED <<raw, seen>>

SignalCell ==
    \E res \in {RunCell(SignalNames, ns)} :
        /\ ns' = res.ns
        /\ err' = res.exc
        /\ out' = [out EXCEPT !["signal"] = {}]
        /\ stage' = NextStage(3, res.exc)
        /\ UNCHANGED <<raw, seen>>

NoiseCell ==
    \E res \in {RunCell(NoiseNames, ns)} :
        /\ ns' = res.ns
        /\ err' = res.exc
        /\ out' = [out EXCEPT !["noise"] = NoiseWarnings(res)]
        /\ stage' = NextStage(4, res.exc)
        /\ UNCHANGED <<raw, seen>>

\* The history variable seen may record this run when it completes and
\* record allows it.
SnrCell(record) ==
    \E res \in {RunCell(SnrNames, ns)} :
        /\ ns' = res.ns
        /\ err' = res.exc
        /\ out' = [out EXCEPT !["snr"] = SnrWarnings(res)]
        /\ stage' = NextStage(5, res.exc)
        /\ seen' \in {seen} \cup
               (IF record /\ stage' = 5
                THEN {[raw |-> raw, snr |-> res.ns.snr, between |-> FALSE]} ELSE {})
        /\ UNCHANGED raw

\* compute(raw): the cells run in order in a fresh kernel.
Compute(r) ==
    LET a == RunCell(HelperNames, ParamCell(EmptyNs, r)).ns
        b == RunCell(GeometryNames, a).ns
        c == RunCell(SignalNames, b).ns
        d == RunCell(NoiseNames, c).ns
    IN  RunCell(SnrNames, d).ns

(***************************************************************************)
(* Parameter values                                                        *)
(***************************************************************************)

\* Other literals for each parameter: values the claims distinguish.
Alternatives ==
    [R |-> {Lit(500, 0)},
     lambda_c |-> {Lit(550, 0)},
     D_ap |-> {Lit(25, 0)},
     D_obs |-> {Lit(5, 0), Lit(114, -1), Lit(12, 0)},
     n_x |-> {Lit(3, 0)},
     n_y |-> {Lit(7, 0)},
     D |-> {Lit(55, -1), Lit(1, -160)},
     f |-> {Lit(25, 0)},
     BW |-> {Lit(100, 0)},
     L_typ |-> {Lit(30, 0), Lit(1, 300)},
     eta |-> {Zero, Lit(1, 0), Lit(15, -1)},
     t |-> {Lit(2, -4), Lit(1, -3)},
     n_evmax |-> {Lit(10000, 0)},
     DR |-> {Lit(1, -20), Lit(2, -20), Lit(40, 0), Lit(54, 0), Lit(60, 0)},
     L_abs |-> {Zero, Lit(1, -9), Lit(5, -1)},
     L_scat |-> {Zero, Lit(1, -9)},
     L_opt |-> {Zero, Lit(1, -9)},
     L_crop |-> {Zero, Lit(1, -9)}]

\* The literals the Run All specification draws from.
RunInputs == {Reference} \cup UNION {{[Reference EXCEPT ![n] = v] : v \in Alternatives[n]} : n \in DOMAIN Alternatives}

\* A parameter set that differs from the reference in every converted field.
Other ==
    [Reference EXCEPT !.R = Lit(500, 0), !.lambda_c = Lit(550, 0),
                      !.D_ap = Lit(25, 0), !.D_obs = Lit(5, 0), !.D = Lit(55, -1),
                      !.f = Lit(25, 0), !.BW = Lit(100, 0), !.L_typ = Lit(30, 0)]

\* The literals the free-order session draws from.
SessionInputs == {Reference, Other}

(***************************************************************************)
(* Specifications                                                          *)
(***************************************************************************)

\* A session: any cell may be executed at any time.
Next ==
    \/ ParameterCell(SessionInputs)
    \/ HelperCell
    \/ GeometryCell
    \/ SignalCell
    \/ NoiseCell
    \/ SnrCell(TRUE)
    \/ Restart

Spec == Init /\ [][Next]_vars

\* Restart Kernel and Run All Cells: the cells top to bottom in a fresh
\* kernel, stopping at a cell that raises.
NextRunAll ==
    \/ Restart
    \/ ns = EmptyNs /\ ParameterCell(RunInputs)
    \/ stage = 1 /\ HelperCell
    \/ stage = 1 /\ ns.np # Undef /\ GeometryCell
    \/ stage = 2 /\ SignalCell
    \/ stage = 3 /\ NoiseCell
    \/ stage = 4 /\ SnrCell(FALSE)

SpecRunAll == Init /\ [][NextRunAll]_vars

(***************************************************************************)
(* Properties                                                              *)
(***************************************************************************)

One == Lit(1, 0)

Positive(x) == Less(Zero, x)

NonNegative(x) == LessEq(Zero, x)

LossNames == {"L_abs", "L_scat", "L_opt", "L_crop"}

\* The validation rules of the parameter set (spec 4.1).
Valid(r) ==
    /\ \A n \in {"R", "lambda_c", "D_ap", "n_x", "n_y", "D", "f", "BW", "t",
                 "n_evmax", "DR"} : Positive(r[n])
    /\ NonNegative(r.L_typ)
    /\ NonNegative(r.D_obs) /\ Less(r.D_obs, r.D_ap)
    /\ Positive(r.eta) /\ LessEq(r.eta, One)
    /\ \A n \in LossNames : NonNegative(r[n]) /\ Less(r[n], One)

\* The inputs C1 is about.
Rejectable(r) ==
    \/ LessEq(r.D_ap, r.D_obs)
    \/ IsZero(r.eta)
    \/ Less(One, r.eta)

Completed == stage = 5

AllWarnings == UNION {out[cl] : cl \in Cells}

\* C1 (as claimed): a run whose obscuration diameter is equal to or greater
\* than the aperture diameter, or whose quantum efficiency is 0 or above 1,
\* fails with InvalidParameter and never produces an snr value.
C1_InvalidRejected ==
    (raw # NoRaw /\ Rejectable(raw)) =>
        /\ ns.snr = Undef
        /\ ~Completed
        /\ (stage = 0 => err = "InvalidParameter")

\* C3 (as claimed): a completed run whose saturation fraction n_ev / n_evmax
\* is >= 1 has surfaced a SaturationWarning and has an snr value.
C3_SaturationWarned ==
    (Completed /\ LessEq(One, ns.saturation)) =>
        /\ "SaturationWarning" \in AllWarnings
        /\ IsNum(ns.snr)

\* The quantities C4 lists.
NonNegNames ==
    {"A_ap", "A_obs", "A_det", "n_ev", "n_sh", "n_d", "n_q", "n_fpn", "n_r",
     "saturation"}

\* No result of the run so far overflowed.
NoOverflow ==
    /\ \A n \in AllNames : ns[n] \in {Obj, Undef} \/ IsFin(ns[n])
    /\ Completed => IsFin(NoiseSum(ns))

\* C4 (as claimed): after a run on valid parameters every listed quantity is
\* >= 0, the noise sum under the square root is > 0 and snr is > 0.
C4_Original ==
    (Completed /\ Valid(raw)) =>
        /\ \A n \in NonNegNames : NonNegative(ns[n])
        /\ Positive(NoiseSum(ns))
        /\ Positive(ns.snr)

\* C4 (amended): in a run on valid parameters in which nothing overflowed,
\* every listed quantity is >= 0 once its stage has assigned it, and when the
\* run completes the noise sum is > 0 and snr is >= 0 (it is 0 when n_ev
\* underflows to zero).
C4_NonNegative ==
    (stage >= 1 /\ Valid(raw) /\ NoOverflow) =>
        /\ \A n \in NonNegNames : ns[n] # Undef => NonNegative(ns[n])
        /\ Completed => Positive(NoiseSum(ns)) /\ NonNegative(ns.snr)

\* C4 witness: a completed run on valid parameters whose snr is positive.
C4_Witness == Completed /\ Valid(raw) /\ NoOverflow /\ Positive(ns.snr)

\* The values a parameter takes in the model.
Values(n) == {Reference[n]} \cup Alternatives[n]

\* The valid parameter sets that differ from r in parameter n alone, by a
\* larger value.
Raised(r, n) ==
    {q \in {[r EXCEPT ![n] = v] : v \in Values(n)} : Less(r[n], q[n]) /\ Valid(q)}

\* C5 (as claimed): n_ev strictly increases with t and strictly decreases
\* with each loss fraction, and n_r strictly decreases with DR.
C5_Original ==
    (Completed /\ Valid(raw)) =>
        /\ \A q \in Raised(raw, "t") : Less(ns.n_ev, Compute(q).n_ev)
        /\ \A n \in LossNames : \A q \in Raised(raw, n) : Less(Compute(q).n_ev, ns.n_ev)
        /\ \A q \in Raised(raw, "DR") : Less(Compute(q).n_r, ns.n_r)

\* C5 (amended): n_ev never decreases when t increases and never increases
\* when a loss fraction increases, and n_r never increases when DR increases.
C5_Monotone ==
    (Completed /\ Valid(raw)) =>
        /\ \A q \in Raised(raw, "t") : LessEq(ns.n_ev, Compute(q).n_ev)
        /\ \A n \in LossNames : \A q \in Raised(raw, n) : LessEq(Compute(q).n_ev, ns.n_ev)
        /\ \A q \in Raised(raw, "DR") : LessEq(Compute(q).n_r, ns.n_r)

\* C5 witness: a completed valid run that a longer exposure, a larger loss
\* and a larger dynamic range each change strictly.
C5_Witness ==
    /\ Completed /\ Valid(raw)
    /\ \E q \in Raised(raw, "t") : Less(ns.n_ev, Compute(q).n_ev)
    /\ \E q \in Raised(raw, "L_abs") : Less(Compute(q).n_ev, ns.n_ev)
    /\ \E q \in Raised(raw, "DR") : Less(Compute(q).n_r, ns.n_r)

\* x is within 1% of target.
Within1Pct(x, target) ==
    /\ LessEq(Mul(Lit(99, -2), target), x)
    /\ LessEq(x, Mul(Lit(101, -2), target))

\* C6: the run on the reference configuration gives A_ap 1.021e-4, A_det
\* 2.541e-4, iFOV 0.0215, smear 0.997, n_ev 3.38e3, saturation 0.282, n_sh
\* 58.2, n_r 21.3 and snr 7.4, each within 1%, and the snr in decibels is
\* within 1% of 8.7.
C6_Reference ==
    (Completed /\ raw = Reference) =>
        /\ Within1Pct(ns.A_ap, Lit(1021, -7))
        /\ Within1Pct(ns.A_det, Lit(2541, -7))
        /\ Within1Pct(ns.iFOV_px, Lit(215, -4))
        /\ Within1Pct(ns.pix_smear, Lit(997, -3))
        /\ Within1Pct(ns.n_ev, Lit(338, 1))
        /\ Within1Pct(ns.saturation, Lit(282, -3))
        /\ Within1Pct(ns.n_sh, Lit(582, -1))
        /\ Within1Pct(ns.n_r, Lit(213, -1))
        /\ Within1Pct(ns.snr, Lit(74, -1))
        /\ LessEq(db2pow(Mul(Lit(99, -2), Lit(87, -1))), ns.snr)
        /\ LessEq(ns.snr, db2pow(Mul(Lit(101, -2), Lit(87, -1))))

\* C6 witness: the run on the reference configuration has completed.
C6_Witness == Completed /\ raw = Reference /\ IsFin(ns.snr)

Squared(x) == Mul(x, x)

\* C7: after a run, snr is n_ev divided by the square root of
\* n_sh^2 + n_d^2 + n_q^2 + n_fpn^2 + (n_r^2)^2: readout noise enters as its
\* fourth power, the other four terms as plain squares.
C7_SnrFormula ==
    Completed =>
        ns.snr = NpDiv(ns.n_ev,
                       Sqrt(Add(Add(Add(Add(Squared(ns.n_sh), Squared(ns.n_d)),
                                        Squared(ns.n_q)),
                                    Squared(ns.n_fpn)),
                                Squared(Squared(ns.n_r)))))

\* C7 witness: a completed run in which the fourth power of the readout
\* noise is the largest term of the sum.
C7_Witness ==
    /\ Completed /\ Positive(ns.snr)
    /\ Less(Squared(ns.n_sh), Squared(Squared(ns.n_r)))

\* The valid parameter sets that differ from r in the pixel counts alone.
Recounted(r) ==
    {q \in {[r EXCEPT !.n_x = a, !.n_y = b] : a \in Values("n_x"), b \in Values("n_y")} :
        q # r /\ Valid(q)}

\* |x - y| is at most 32 half-units in the last place of the larger of two
\* positive finite numbers: 32 * (10^(1-Prec) / 2) = 160 * 10^-Prec.
RoundingClose(x, y) ==
    LET a == IF MagGe(x, y) THEN x ELSE y
        b == IF MagGe(x, y) THEN y ELSE x
        A == a.m * P10(a.e - b.e)
    IN  a.e - b.e <= 1 /\ A - b.m <= (160 * A) \div Base

\* C10 (as claimed): n_ev is the same for valid parameter sets that differ
\* only in n_x and n_y.
C10_Original ==
    (Completed /\ Valid(raw)) => \A q \in Recounted(raw) : Compute(q).n_ev = ns.n_ev

\* C10 (amended): for valid parameter sets that differ only in n_x and n_y
\* and on which n_ev neither overflows nor underflows, n_ev agrees up to
\* rounding: the relative difference is at most 32 rounding units.
C10_PixelCountFree ==
    (Completed /\ Valid(raw)) =>
        \A q \in Recounted(raw) :
            LET v == Compute(q).n_ev
            IN  (IsFin(v) /\ Positive(v) /\ IsFin(ns.n_ev) /\ Positive(ns.n_ev))
                    => RoundingClose(v, ns.n_ev)

\* C10 witness: a completed valid run with a positive finite n_ev, and
\* another pixel count that gives a different but close n_ev.
C10_Witness ==
    /\ Completed /\ Valid(raw) /\ IsFin(ns.n_ev) /\ Positive(ns.n_ev)
    /\ \E q \in Recounted(raw) :
           LET v == Compute(q).n_ev
           IN  v # ns.n_ev /\ IsFin(v) /\ Positive(v) /\ RoundingClose(v, ns.n_ev)

\* The fixed factor of each converted parameter (spec 4.1).
Factor ==
    [R |-> Lit(1, 3), lambda_c |-> Lit(1, -9), D_ap |-> Lit(1, -3),
     D_obs |-> Lit(1, -3), D |-> Lit(1, -6), f |-> Lit(1, -3), BW |-> Lit(1, -9),
     L_typ |-> Lit(1, 6)]

\* C8: whenever a converted parameter is bound, so that a formula can read
\* it, it is the literal the parameter cell assigned last times its factor.
C8_ConvertedOnce ==
    \A n \in DOMAIN Factor : ns[n] # Undef => ns[n] = Mul(raw[n], Factor[n])

\* C8 witness: the parameter cell has run again, with other literals, after a
\* complete run, and the geometry cell has read the converted values.
C8_Witness == seen # NoSeen /\ raw # seen.raw /\ stage = 2 /\ IsFin(ns.A_ap)

\* C2: a complete in-order run yields the snr that the recorded earlier run
\* on the same literals yielded.
C2_Deterministic == (Completed /\ seen.raw = raw) => ns.snr = seen.snr

\* C2 witness: a run completes on the literals of the recorded run after the
\* parameter cell has set other literals in between.
C2_Witness == Completed /\ seen.raw = raw /\ seen.between /\ IsFin(ns.snr)

\* The names each stage owns (spec 3): its inputs or outputs.
Owned ==
    [parameters |-> Range(ParamNames),
     geometry |-> {"R_e", "h", "c", "A_ap", "A_obs", "A_det", "iFOV_px", "pix_smear"},
     signal |-> {"P", "phi_det", "phi", "n_ev", "saturation"},
     noise |-> {"n_sh", "n_d", "n_q", "n_fpn", "n_r"},
     snr |-> {"snr"}]

\* Executing a cell left every name that stage cl does not own as it was.
Frame(cl) == \A n \in AllNames \ Owned[cl] : ns'[n] = ns[n]

\* C9: every cell assigns only its own stage's names, and re-executing the
\* cell that has just run in order changes nothing.
C9_NoFeedback ==
    [][/\ ParameterCell(SessionInputs) => Frame("parameters")
       /\ GeometryCell => Frame("geometry")
       /\ SignalCell => Frame("signal")
       /\ NoiseCell => Frame("noise")
       /\ SnrCell(TRUE) => Frame("snr")
       /\ (stage = 2 /\ GeometryCell) => ns' = ns
       /\ (stage = 3 /\ SignalCell) => ns' = ns
       /\ (stage = 4 /\ NoiseCell) => ns' = ns
       /\ (stage = 5 /\ SnrCell(TRUE)) => ns' = ns]_vars

\* C9 witness: a cell has been executed out of order, without raising, in a
\* namespace that holds the results of every stage.
C9_Witness == stage = 0 /\ err = "" /\ IsFin(ns.snr) /\ IsFin(ns.n_r)

====
